---- MODULE Spec2Model ----
(***************************************************************************)
(* Model of accelerator/musa_accelerator.py: the MUSA_Accelerator adapter. *)
(*                                                                         *)
(* Three specifications share the variables:                               *)
(*   Spec      one caller at a time uses the op-builder registry           *)
(*             (get_op_builder / create_op_builder, lazy discovery);       *)
(*   SpecDev   the capability and device methods, over every feature set   *)
(*             the torch_musa runtime may expose;                          *)
(*   SpecConc  two threads race get_op_builder on one fresh instance, one  *)
(*             step per read or write of self.class_dict.                  *)
(*                                                                         *)
(* Python str values that the code inspects by content (member names,      *)
(* device strings) are sequences of one-character strings.  Module names   *)
(* are only compared for equality and stay TLA+ strings.                   *)
(***************************************************************************)
EXTENDS Integers, Sequences, FiniteSets, TLC

VARIABLES
    package,     \* the op_builder package on disk: modules in iter_modules order
    class_dict,  \* self.class_dict: [none |-> TRUE] or [none |-> FALSE, map |-> name :> class]
    ret,         \* what the last call returned or raised
    last,        \* the last call made: its operation and argument
    scans,       \* number of discovery scans started (iter_modules calls)
    discovery,   \* outcome of the first scan: "Uninitialized", "Ready", "Aborted"
    ninst,       \* number of builder constructor invocations so far
    created,     \* the instances create_op_builder returned, in order
    runtime,     \* attributes the torch_musa module exposes
    capability,  \* torch_musa.get_device_capability(): <<major, minor>>
    rt_call,     \* the runtime function the last call invoked, "none" if none
    pc,          \* SpecConc: each thread's position in get_op_builder
    pos,         \* SpecConc: each thread's loop position <<module index, member index>>
    tret         \* SpecConc: each thread's result

vars == <<package, class_dict, ret, last, scans, discovery, ninst, created,
          runtime, capability, rt_call, pc, pos, tret>>

regVars == <<package, class_dict, scans, discovery, ninst, created>>
devVars == <<runtime, capability, rt_call>>
concVars == <<pc, pos, tret>>

(***************************************************************************)
(* Bounds of the model                                                     *)
(***************************************************************************)
MaxModules == 3      \* modules in the scanned package
MaxInstances == 2    \* constructor invocations explored
MaxMajor == 9        \* compute-capability major versions 0..MaxMajor
MaxMinor == 1        \* compute-capability minor versions 0..MaxMinor
MaxIndex == 11       \* device indices -1..MaxIndex

(***************************************************************************)
(* Names                                                                   *)
(***************************************************************************)
s_Builder == <<"B", "u", "i", "l", "d", "e", "r">>
s_OpBuilder == <<"O", "p", "B", "u", "i", "l", "d", "e", "r">>
s_CUDAOpBuilder == <<"C", "U", "D", "A", "O", "p", "B", "u", "i", "l", "d", "e", "r">>
s_TorchCPUOpBuilder == <<"T", "o", "r", "c", "h", "C", "P", "U", "O", "p", "B", "u", "i", "l", "d", "e", "r">>
s_AdamBuilder == <<"A", "d", "a", "m", "B", "u", "i", "l", "d", "e", "r">>
s_LionBuilder == <<"L", "i", "o", "n", "B", "u", "i", "l", "d", "e", "r">>
s_CPUAdamBuilder == <<"C", "P", "U", "A", "d", "a", "m", "B", "u", "i", "l", "d", "e", "r">>
s_BuilderKit == <<"B", "u", "i", "l", "d", "e", "r", "K", "i", "t">>
s_os == <<"o", "s">>
s_Nonexistent == <<"N", "o", "n", "e", "x", "i", "s", "t", "e", "n", "t">>
s_musa == <<"m", "u", "s", "a">>
s_musa_colon == <<"m", "u", "s", "a", ":">>

(***************************************************************************)
(* str methods                                                             *)
(***************************************************************************)
\* s.endswith(suffix)
endswith(s, suffix) ==
    /\ Len(s) >= Len(suffix)
    /\ SubSeq(s, Len(s) - Len(suffix) + 1, Len(s)) = suffix

\* s.startswith(prefix)
startswith(s, prefix) ==
    /\ Len(s) >= Len(prefix)
    /\ SubSeq(s, 1, Len(prefix)) = prefix


(***************************************************************************)
(* The op_builder package: what pkgutil.iter_modules and the imports find. *)
(* A module is [name, importable, members]; members are the entries of     *)
(* module.__dir__() in order, each [name, cls] with cls the identity of    *)
(* the object getattr(module, name) returns.                               *)
(***************************************************************************)
Member(n, c) == [name |-> n, cls |-> c]

mod_adam ==
    [name |-> "adam", importable |-> TRUE,
     members |-> <<Member(s_os, 1), Member(s_OpBuilder, 2), Member(s_AdamBuilder, 3),
                   Member(s_BuilderKit, 4), Member(s_TorchCPUOpBuilder, 5)>>]

mod_lion ==
    [name |-> "lion", importable |-> TRUE,
     members |-> <<Member(s_CUDAOpBuilder, 6), Member(s_AdamBuilder, 7),
                   Member(s_LionBuilder, 8), Member(s_Builder, 9)>>]

mod_builder ==
    [name |-> "builder", importable |-> TRUE,
     members |-> <<Member(s_OpBuilder, 2), Member(s_CUDAOpBuilder, 6),
                   Member(s_TorchCPUOpBuilder, 5), Member(s_Builder, 10)>>]

mod_all_ops ==
    [name |-> "all_ops", importable |-> TRUE,
     members |-> <<Member(s_os, 1), Member(s_AdamBuilder, 3), Member(s_LionBuilder, 8)>>]

mod_cpu ==
    [name |-> "cpu", importable |-> TRUE,
     members |-> <<Member(s_AdamBuilder, 11), Member(s_CPUAdamBuilder, 12)>>]

mod_broken ==
    [name |-> "broken", importable |-> FALSE, members |-> <<>>]

ModulePool == {mod_adam, mod_lion, mod_builder, mod_all_ops, mod_cpu, mod_broken}

\* iter_modules yields each module name of the directory once
DistinctNames(pkg) ==
    \A a, b \in 1..Len(pkg) : a # b => pkg[a].name # pkg[b].name

Packages ==
    {pkg \in UNION {[1..n -> ModulePool] : n \in 0..MaxModules} : DistinctNames(pkg)}

\* the class names callers ask for
QueryNames == {s_AdamBuilder, s_LionBuilder, s_OpBuilder, s_CPUAdamBuilder, s_Nonexistent}

(***************************************************************************)
(* class_dict                                                              *)
(***************************************************************************)
NoneDict == [none |-> TRUE, map |-> <<>>]
Dict(m) == [none |-> FALSE, map |-> m]

(***************************************************************************)
(* _lazy_init_class_dict                                                   *)
(***************************************************************************)
ModuleScannedNoCpu(module_name) ==
    module_name # "all_ops" /\ module_name # "builder"

\* line 236: avoid self references
ModuleScanned(module_name) ==
    module_name # "all_ops" /\ module_name # "builder" /\ module_name # "cpu"

\* lines 239-241: the name filter, avoiding abstract classes
IsBuilderName(member_name) ==
    /\ endswith(member_name, s_Builder)
    /\ member_name # s_OpBuilder
    /\ member_name # s_CUDAOpBuilder
    /\ member_name # s_TorchCPUOpBuilder

InsertMemberOverwrite(map, member) ==
    IF IsBuilderName(member.name)
    THEN [n \in (DOMAIN map) \cup {member.name} |->
             IF n = member.name THEN member.cls ELSE map[n]]
    ELSE map

\* lines 239-243: one iteration of the member loop
InsertMember(map, member) ==
    IF IsBuilderName(member.name) /\ member.name \notin DOMAIN map
    THEN [n \in (DOMAIN map) \cup {member.name} |->
             IF n = member.name THEN member.cls ELSE map[n]]
    ELSE map

\* lines 238-243: the member loop over one imported module, from member j on
RECURSIVE ScanMembers(_, _, _)
ScanMembers(map, members, j) ==
    IF j > Len(members) THEN map
    ELSE ScanMembers(InsertMember(map, members[j]), members, j + 1)

\* lines 234-243: the module loop from module i on; an import that fails
\* raises out of the loop and leaves the entries inserted so far
RECURSIVE ScanModules(_, _, _)
ScanModules(map, pkg, i) ==
    IF i > Len(pkg) THEN [map |-> map, raised |-> FALSE]
    ELSE IF ~ModuleScanned(pkg[i].name) THEN ScanModules(map, pkg, i + 1)
    ELSE IF ~pkg[i].importable THEN [map |-> map, raised |-> TRUE]
    ELSE ScanModules(ScanMembers(map, pkg[i].members, 1), pkg, i + 1)

lazy_init_always(cd, pkg) ==
    LET r == ScanModules(<<>>, pkg, 1)
    IN  [cd |-> Dict(r.map), raised |-> r.raised, scanned |-> 1]

\* lines 225-244: returns the new self.class_dict, whether ImportError
\* propagated, and the number of scans performed
lazy_init_class_dict(cd, pkg) ==
    IF ~cd.none
    THEN [cd |-> cd, raised |-> FALSE, scanned |-> 0]
    ELSE LET r == ScanModules(<<>>, pkg, 1)
         IN  [cd |-> Dict(r.map), raised |-> r.raised, scanned |-> 1]

(***************************************************************************)
(* Return values                                                           *)
(***************************************************************************)
\* a value is [kind, val]: kind tells what val holds
None == [kind |-> "None", val |-> <<>>]
Raise(exc) == [kind |-> "raise", val |-> exc]
ClassRef(c) == [kind |-> "class", val |-> c]
Bool(b) == [kind |-> "bool", val |-> b]
Str(s) == [kind |-> "str", val |-> s]

CachedInstance(c, n) == [kind |-> "instance", val |-> [cls |-> c, id |-> 1]]

\* line 250: self.class_dict[class_name]() -- the n+1-th object constructed
NewInstance(c, n) == [kind |-> "instance", val |-> [cls |-> c, id |-> n + 1]]

LookupNoCheck(cd, class_name) ==
    IF class_name \in DOMAIN cd.map
    THEN ClassRef(cd.map[class_name])
    ELSE Raise("KeyError")

\* lines 257-260
LookupClass(cd, class_name) ==
    IF class_name \in DOMAIN cd.map
    THEN ClassRef(cd.map[class_name])
    ELSE None

\* lines 249-252
LookupCreate(cd, class_name, n) ==
    IF class_name \in DOMAIN cd.map
    THEN NewInstance(cd.map[class_name], n)
    ELSE None

(***************************************************************************)
(* Spec: the registry used by one caller at a time                         *)
(***************************************************************************)
IdleDev ==
    /\ runtime = [attrs |-> {}, nvtx |-> {}]
    /\ capability = <<0, 0>>
    /\ rt_call = "none"

IdleConc ==
    /\ pc = <<>>
    /\ pos = <<>>
    /\ tret = <<>>

Init ==
    /\ package \in Packages
    /\ class_dict = NoneDict
    /\ ret = [kind |-> "init", val |-> <<>>]
    /\ last = [op |-> "init", arg |-> <<>>]
    /\ scans = 0
    /\ discovery = "Uninitialized"
    /\ ninst = 0
    /\ created = <<>>
    /\ IdleDev
    /\ IdleConc

\* the effect of self._lazy_init_class_dict() on the registry state
LazyInit(r) ==
    /\ class_dict' = r.cd
    /\ scans' = scans + r.scanned
    /\ discovery' = IF r.scanned = 0 THEN discovery
                    ELSE IF r.raised THEN "Aborted" ELSE "Ready"

\* lines 255-260
get_op_builder(class_name) ==
    LET r == lazy_init_class_dict(class_dict, package)
    IN  /\ LazyInit(r)
        /\ ret' = IF r.raised THEN Raise("ImportError") ELSE LookupClass(r.cd, class_name)
        /\ last' = [op |-> "get_op_builder", arg |-> class_name]
        /\ UNCHANGED <<package, ninst, created>>
        /\ UNCHANGED devVars
        /\ UNCHANGED concVars

\* lines 247-252
create_op_builder(class_name) ==
    LET r == lazy_init_class_dict(class_dict, package)
        v == IF r.raised THEN Raise("ImportError") ELSE LookupCreate(r.cd, class_name, ninst)
    IN  /\ ninst < MaxInstances
        /\ LazyInit(r)
        /\ ret' = v
        /\ last' = [op |-> "create_op_builder", arg |-> class_name]
        /\ ninst' = IF v.kind = "instance" THEN ninst + 1 ELSE ninst
        /\ created' = IF v.kind = "instance"
                      THEN Append(created, [name |-> class_name, cls |-> v.val.cls, id |-> v.val.id])
                      ELSE created
        /\ UNCHANGED package
        /\ UNCHANGED devVars
        /\ UNCHANGED concVars

GetOpBuilder == \E class_name \in QueryNames : get_op_builder(class_name)
CreateOpBuilder == \E class_name \in QueryNames : create_op_builder(class_name)

Next == GetOpBuilder \/ CreateOpBuilder

Spec == Init /\ [][Next]_vars

(***************************************************************************)
(* What the registry should hold, stated without the scan: the names the   *)
(* package exports through scanned modules, each with its first exporter.  *)
(***************************************************************************)
ExcludedModules == {"all_ops", "builder", "cpu"}
ExcludedClasses == {s_OpBuilder, s_CUDAOpBuilder, s_TorchCPUOpBuilder}

HasBuilderSuffix(n) == \E k \in 0..Len(n) : SubSeq(n, k + 1, Len(n)) = s_Builder

Exports(m, n) == \E j \in 1..Len(m.members) : m.members[j].name = n

ExportedClass(m, n) == m.members[CHOOSE j \in 1..Len(m.members) : m.members[j].name = n].cls

Exporters(pkg, n) ==
    {i \in 1..Len(pkg) : pkg[i].name \notin ExcludedModules /\ Exports(pkg[i], n)}

ExportedNames(pkg) ==
    UNION {{pkg[i].members[j].name : j \in 1..Len(pkg[i].members)} : i \in 1..Len(pkg)}

AcceptedNames(pkg) ==
    {n \in ExportedNames(pkg) :
        HasBuilderSuffix(n) /\ n \notin ExcludedClasses /\ Exporters(pkg, n) # {}}

FirstExporter(pkg, n) ==
    CHOOSE i \in Exporters(pkg, n) : \A k \in Exporters(pkg, n) : i <= k

ExpectedRegistry(pkg) ==
    [n \in AcceptedNames(pkg) |-> ExportedClass(pkg[FirstExporter(pkg, n)], n)]

(***************************************************************************)
(* Claims about the registry, checked under Spec                           *)
(***************************************************************************)

\* C1: class_dict is, whenever a caller can observe it, either None or the
\* fully populated mapping; an aborted discovery persists no partial registry.
C1_NoneOrFullyPopulated ==
    class_dict.none \/ class_dict.map = ExpectedRegistry(package)

\* C2: the registry is populated exactly once: once the first discovery has
\* completed exactly one scan has been performed, and no later call scans
\* again or modifies the mapping.
C2_PopulatedOnce ==
    /\ [](discovery = "Ready" => scans = 1)
    /\ [][discovery = "Ready" => (class_dict' = class_dict /\ scans' = scans)]_vars

C2_Witness ==
    /\ discovery = "Ready"
    /\ scans = 1
    /\ Len(created) = 2
    /\ last.op = "get_op_builder"
    /\ class_dict.map # <<>>

\* C3: after a completed discovery the key set is exactly the set of names
\* exported by a scanned module that is not all_ops, builder or cpu, ending
\* with "Builder" and not OpBuilder, CUDAOpBuilder or TorchCPUOpBuilder.
C3_KeySet ==
    discovery = "Ready" =>
        /\ ~class_dict.none
        /\ DOMAIN class_dict.map = AcceptedNames(package)

C3_Witness ==
    /\ discovery = "Ready"
    /\ \E i, k \in 1..Len(package) :
          /\ package[i].name = "cpu"
          /\ package[k].name = "adam"
    /\ s_CPUAdamBuilder \notin DOMAIN class_dict.map
    /\ s_TorchCPUOpBuilder \notin DOMAIN class_dict.map
    /\ s_BuilderKit \notin DOMAIN class_dict.map
    /\ s_AdamBuilder \in DOMAIN class_dict.map

\* C4: each name maps to one class and the first discovery wins: the entry of
\* a name exported by several scanned modules is the class of the first of
\* them in enumeration order.
C4_FirstWins ==
    discovery = "Ready" =>
        \A n \in DOMAIN class_dict.map :
            /\ Exporters(package, n) # {}
            /\ class_dict.map[n] = ExportedClass(package[FirstExporter(package, n)], n)

C4_Witness ==
    /\ discovery = "Ready"
    /\ \E i, k \in Exporters(package, s_AdamBuilder) :
          /\ i < k
          /\ ExportedClass(package[i], s_AdamBuilder) # ExportedClass(package[k], s_AdamBuilder)
          /\ class_dict.map[s_AdamBuilder] = ExportedClass(package[i], s_AdamBuilder)

\* the instances created so far are pairwise distinct objects, each of the
\* class registered under the name asked for, and the last create call
\* returned the object it constructed
C6_Instances ==
    /\ \A a, b \in 1..Len(created) : a # b => created[a].id # created[b].id
    /\ \A a \in 1..Len(created) :
          /\ created[a].name \in DOMAIN class_dict.map
          /\ created[a].cls = class_dict.map[created[a].name]
    /\ (last.op = "create_op_builder" /\ ret.kind = "instance") =>
          /\ ret.val.id = ninst
          /\ created[Len(created)] = [name |-> last.arg, cls |-> ret.val.cls, id |-> ret.val.id]

\* C6: create_op_builder(name) for a registered name constructs a fresh
\* instance on every call: the instances returned are pairwise distinct, each
\* is an instance of the class get_op_builder(name) returns, none is cached,
\* and a call on a populated registry leaves the registry unchanged.
C6_FreshInstance ==
    /\ []C6_Instances
    /\ [][(~class_dict.none /\ last'.op = "create_op_builder") =>
             class_dict' = class_dict]_vars

C6_Witness ==
    /\ Len(created) = 2
    /\ created[1].name = created[2].name
    /\ created[1].cls = created[2].cls
    /\ created[1].id # created[2].id
    /\ last.op = "create_op_builder"

\* C7: when discovery raised no error, get_op_builder and create_op_builder
\* with a name that is not a registry key return None without raising and add
\* no entry for the name.
C7_UnknownName ==
    (/\ discovery = "Ready"
     /\ last.op \in {"get_op_builder", "create_op_builder"}
     /\ last.arg \notin AcceptedNames(package)) =>
        /\ ret = None
        /\ last.arg \notin DOMAIN class_dict.map

C7_Witness ==
    /\ discovery = "Ready"
    /\ scans = 1
    /\ last = [op |-> "get_op_builder", arg |-> s_Nonexistent]
    /\ ret = None
    /\ class_dict.map # <<>>
    /\ s_Nonexistent \notin DOMAIN class_dict.map

(***************************************************************************)
(* SpecDev: capability and device methods over the torch_musa runtime      *)
(***************************************************************************)
\* the optional attributes torch_musa may expose, and those of torch_musa.nvtx
TopAttrs == {"memory_stats", "reset_peak_memory_stats", "memory_reserved",
             "max_memory_reserved", "amp", "nvtx"}
NvtxAttrs == {"range_push", "range_pop"}

\* a runtime without the nvtx attribute has no torch_musa.nvtx attributes
Runtimes ==
    {rt \in [attrs : SUBSET TopAttrs, nvtx : SUBSET NvtxAttrs] :
        "nvtx" \notin rt.attrs => rt.nvtx = {}}

hasattr(attrs, name) == name \in attrs

\* the call is forwarded: the result is whatever the runtime function returns
Forward(f) == [ret |-> [kind |-> "runtime", val |-> f], call |-> f]
\* no call into the runtime is made
Local(v) == [ret |-> v, call |-> "none"]

\* lines 118-120
memory_stats(rt) ==
    IF hasattr(rt.attrs, "memory_stats") THEN Forward("memory_stats") ELSE Local(None)

\* lines 122-124
reset_peak_memory_stats(rt) ==
    IF hasattr(rt.attrs, "reset_peak_memory_stats")
    THEN Forward("reset_peak_memory_stats") ELSE Local(None)

\* lines 126-128
memory_reserved(rt) ==
    IF hasattr(rt.attrs, "memory_reserved") THEN Forward("memory_reserved") ELSE Local(None)

\* lines 130-132
max_memory_reserved(rt) ==
    IF hasattr(rt.attrs, "max_memory_reserved")
    THEN Forward("max_memory_reserved") ELSE Local(None)

\* lines 149-152: returns the attribute itself, calls nothing
amp(rt) ==
    IF hasattr(rt.attrs, "amp") THEN Local([kind |-> "attr", val |-> "amp"]) ELSE Local(None)

\* lines 157-159: torch_musa.nvtx is read before hasattr is applied to it
range_push(rt) ==
    IF ~hasattr(rt.attrs, "nvtx") THEN Local(Raise("AttributeError"))
    ELSE IF hasattr(rt.nvtx, "range_push") THEN Forward("nvtx.range_push")
    ELSE Local(None)

\* lines 161-163
range_pop(rt) ==
    IF ~hasattr(rt.attrs, "nvtx") THEN Local(Raise("AttributeError"))
    ELSE IF hasattr(rt.nvtx, "range_pop") THEN Forward("nvtx.range_pop")
    ELSE Local(None)

is_fp16_supported_gt(cap) ==
    IF cap[1] > 7 THEN TRUE ELSE FALSE

\* lines 141-146
is_fp16_supported(cap) ==
    IF cap[1] >= 7 THEN TRUE ELSE FALSE

\* str(int) in decimal
Digits == <<"0", "1", "2", "3", "4", "5", "6", "7", "8", "9">>

RECURSIVE NatStr(_)
NatStr(n) ==
    IF n < 10 THEN <<Digits[n + 1]>>
    ELSE NatStr(n \div 10) \o <<Digits[(n % 10) + 1]>>

IntStr(n) == IF n < 0 THEN <<"-">> \o NatStr(-n) ELSE NatStr(n)

\* lines 27-30; device_index is <<>> for None and <<i>> for the integer i
device_name(device_index) ==
    IF device_index = <<>> THEN s_musa
    ELSE s_musa_colon \o IntStr(device_index[1])

on_accelerator_bare(device_str) ==
    IF startswith(device_str, s_musa) THEN TRUE ELSE FALSE

\* lines 204-209; device_str is str(tensor.device)
on_accelerator(device_str) ==
    IF startswith(device_str, s_musa_colon) THEN TRUE ELSE FALSE

DeviceIndices == {<<>>} \cup {<<i>> : i \in -1..MaxIndex}

\* device strings of the resources handed to on_accelerator
DeviceStrs ==
    {device_name(d) : d \in DeviceIndices} \cup
    { <<>>,
      <<"c", "p", "u">>,
      <<"m", "u", "s">>,
      <<"m", "u", "s", "a", ":">>,
      <<"m", "u", "s", "a", "0">>,
      <<"m", "u", "s", "a", ";", "0">>,
      <<"c", "u", "d", "a", ":", "0">>,
      <<"x", "m", "u", "s", "a", ":", "0">>,
      <<"M", "U", "S", "A", ":", "0">>,
      <<":", "m", "u", "s", "a">> }

IdleReg ==
    /\ package = <<>>
    /\ class_dict = NoneDict
    /\ scans = 0
    /\ discovery = "Uninitialized"
    /\ ninst = 0
    /\ created = <<>>

InitDev ==
    /\ runtime \in Runtimes
    /\ capability \in (0..MaxMajor) \X (0..MaxMinor)
    /\ rt_call = "none"
    /\ ret = [kind |-> "init", val |-> <<>>]
    /\ last = [op |-> "init", arg |-> <<>>]
    /\ IdleReg
    /\ IdleConc

\* a method call whose outcome r is [ret, call]
Call(op, arg, r) ==
    /\ ret' = r.ret
    /\ rt_call' = r.call
    /\ last' = [op |-> op, arg |-> arg]
    /\ UNCHANGED <<runtime, capability>>
    /\ UNCHANGED regVars
    /\ UNCHANGED concVars

MemoryStats == Call("memory_stats", <<>>, memory_stats(runtime))
ResetPeakMemoryStats == Call("reset_peak_memory_stats", <<>>, reset_peak_memory_stats(runtime))
MemoryReserved == Call("memory_reserved", <<>>, memory_reserved(runtime))
MaxMemoryReserved == Call("max_memory_reserved", <<>>, max_memory_reserved(runtime))
Amp == Call("amp", <<>>, amp(runtime))
RangePush == Call("range_push", <<>>, range_push(runtime))
RangePop == Call("range_pop", <<>>, range_pop(runtime))

\* line 142 calls torch_musa.get_device_capability()
IsFp16Supported ==
    Call("is_fp16_supported", <<>>,
         [ret |-> Bool(is_fp16_supported(capability)), call |-> "get_device_capability"])

DeviceName ==
    \E d \in DeviceIndices : Call("device_name", d, Local(Str(device_name(d))))

OnAccelerator ==
    \E s \in DeviceStrs : Call("on_accelerator", s, Local(Bool(on_accelerator(s))))

NextDev ==
    \/ MemoryStats
    \/ ResetPeakMemoryStats
    \/ MemoryReserved
    \/ MaxMemoryReserved
    \/ Amp
    \/ RangePush
    \/ RangePop
    \/ IsFp16Supported
    \/ DeviceName
    \/ OnAccelerator

SpecDev == InitDev /\ [][NextDev]_vars

(***************************************************************************)
(* Claims about the capability and device methods, checked under SpecDev   *)
(***************************************************************************)
OptionalMethods == {"memory_stats", "reset_peak_memory_stats", "memory_reserved",
                    "max_memory_reserved", "amp", "range_push", "range_pop"}

\* whether the runtime exposes the feature an optional method forwards to
Exposes(rt, method) ==
    IF method \in NvtxAttrs
    THEN "nvtx" \in rt.attrs /\ method \in rt.nvtx
    ELSE method \in rt.attrs

\* C5: every optional capability method, when the runtime lacks the feature
\* the method needs, returns None, raises no error and makes no call into
\* the runtime.
C5_AbsentFeatureNone ==
    (last.op \in OptionalMethods /\ ~Exposes(runtime, last.op)) =>
        (ret = None /\ rt_call = "none")

\* C8: is_fp16_supported() is true iff the major compute-capability version
\* is >= 7; the minor version does not affect the result.
C8_Fp16Threshold ==
    last.op = "is_fp16_supported" =>
        /\ ret.kind = "bool"
        /\ ret.val = (capability[1] >= 7)
        /\ capability[1] <= 6 => ret.val = FALSE

C8_Witness ==
    /\ last.op = "is_fp16_supported"
    /\ capability = <<7, 1>>
    /\ ret = Bool(TRUE)

BeginsWithMusaColon(s) ==
    /\ Len(s) >= 5
    /\ s[1] = "m" /\ s[2] = "u" /\ s[3] = "s" /\ s[4] = "a" /\ s[5] = ":"

\* C9: on_accelerator is true iff the device string begins with "musa:";
\* it is false for the bare name "musa", true for device_name(i) for every
\* index i and false for device_name() without an index.
C9_OnAccelerator ==
    last.op = "on_accelerator" =>
        /\ ret.kind = "bool"
        /\ ret.val = BeginsWithMusaColon(last.arg)
        /\ last.arg = <<"m", "u", "s", "a">> => ret.val = FALSE
        /\ \A d \in DeviceIndices :
              last.arg = device_name(d) => ret.val = (d # <<>>)

C9_Witness ==
    /\ last.op = "on_accelerator"
    /\ last.arg = <<"m", "u", "s", "a", ":", "1", "0">>
    /\ last.arg = device_name(<<10>>)
    /\ ret = Bool(TRUE)

(***************************************************************************)
(* SpecConc: two threads call get_op_builder(name) on one fresh instance.  *)
(* A step is one read or write of self.class_dict; the loop bookkeeping    *)
(* between two such steps touches only the thread's locals and is folded   *)
(* into the step before it.                                                *)
(***************************************************************************)
Threads == {"t1", "t2"}

\* lines 234-241: from loop position <<i, j>>, run the module and member
\* loops to the next member that passes the name filter (pc "test"), to the
\* end of the loops (pc "lookup"), or to an import that fails (pc "raised")
RECURSIVE Seek(_, _, _)
Seek(pkg, i, j) ==
    IF i > Len(pkg) THEN [pc |-> "lookup", pos |-> <<i, 1>>]
    ELSE IF ~ModuleScanned(pkg[i].name) THEN Seek(pkg, i + 1, 1)
    ELSE IF ~pkg[i].importable THEN [pc |-> "raised", pos |-> <<i, 1>>]
    ELSE IF j > Len(pkg[i].members) THEN Seek(pkg, i + 1, 1)
    ELSE IF IsBuilderName(pkg[i].members[j].name) THEN [pc |-> "test", pos |-> <<i, j>>]
    ELSE Seek(pkg, i, j + 1)

CurrentMember(t) == package[pos[t][1]].members[pos[t][2]]

InitConc ==
    /\ package \in Packages
    /\ class_dict = NoneDict
    /\ ret = [kind |-> "init", val |-> <<>>]
    /\ last \in {[op |-> "get_op_builder", arg |-> n] : n \in QueryNames}
    /\ scans = 0
    /\ discovery = "Uninitialized"
    /\ ninst = 0
    /\ created = <<>>
    /\ IdleDev
    /\ pc = [t \in Threads |-> "check"]
    /\ pos = [t \in Threads |-> <<1, 1>>]
    /\ tret = [t \in Threads |-> [kind |-> "init", val |-> <<>>]]

ConcFrame == UNCHANGED <<package, ret, last, discovery, ninst, created, runtime, capability, rt_call>>

\* move thread t on to where Seek leads; an import that fails ends the call
Continue(t, to) ==
    IF to.pc = "raised"
    THEN /\ pc' = [pc EXCEPT ![t] = "done"]
         /\ pos' = [pos EXCEPT ![t] = to.pos]
         /\ tret' = [tret EXCEPT ![t] = Raise("ImportError")]
    ELSE /\ pc' = [pc EXCEPT ![t] = to.pc]
         /\ pos' = [pos EXCEPT ![t] = to.pos]
         /\ UNCHANGED tret

\* line 226: if self.class_dict != None
Check(t) ==
    /\ pc[t] = "check"
    /\ pc' = [pc EXCEPT ![t] = IF ~class_dict.none THEN "lookup" ELSE "assign"]
    /\ UNCHANGED <<class_dict, scans, pos, tret>>
    /\ ConcFrame

\* line 229: self.class_dict = {}, then lines 232-241 up to the first test
Assign(t) ==
    /\ pc[t] = "assign"
    /\ class_dict' = Dict(<<>>)
    /\ scans' = scans + 1
    /\ Continue(t, Seek(package, 1, 1))
    /\ ConcFrame

\* line 242: if not member_name in self.class_dict
Test(t) ==
    /\ pc[t] = "test"
    /\ IF CurrentMember(t).name \notin DOMAIN class_dict.map
       THEN /\ pc' = [pc EXCEPT ![t] = "store"]
            /\ UNCHANGED <<pos, tret>>
       ELSE Continue(t, Seek(package, pos[t][1], pos[t][2] + 1))
    /\ UNCHANGED <<class_dict, scans>>
    /\ ConcFrame

\* line 243: self.class_dict[member_name] = getattr(module, member_name)
Store(t) ==
    /\ pc[t] = "store"
    /\ class_dict' = Dict([n \in (DOMAIN class_dict.map) \cup {CurrentMember(t).name} |->
                              IF n = CurrentMember(t).name
                              THEN CurrentMember(t).cls
                              ELSE class_dict.map[n]])
    /\ Continue(t, Seek(package, pos[t][1], pos[t][2] + 1))
    /\ UNCHANGED scans
    /\ ConcFrame

\* line 257: if class_name in self.class_dict
Lookup(t) ==
    /\ pc[t] = "lookup"
    /\ IF last.arg \in DOMAIN class_dict.map
       THEN /\ pc' = [pc EXCEPT ![t] = "fetch"]
            /\ UNCHANGED tret
       ELSE /\ pc' = [pc EXCEPT ![t] = "done"]
            /\ tret' = [tret EXCEPT ![t] = None]
    /\ UNCHANGED <<class_dict, scans, pos>>
    /\ ConcFrame

\* line 258: return self.class_dict[class_name]
Fetch(t) ==
    /\ pc[t] = "fetch"
    /\ pc' = [pc EXCEPT ![t] = "done"]
    /\ tret' = [tret EXCEPT ![t] =
                   IF last.arg \in DOMAIN class_dict.map
                   THEN ClassRef(class_dict.map[last.arg])
                   ELSE Raise("KeyError")]
    /\ UNCHANGED <<class_dict, scans, pos>>
    /\ ConcFrame

NextConc ==
    \E t \in Threads :
        \/ Check(t)
        \/ Assign(t)
        \/ Test(t)
        \/ Store(t)
        \/ Lookup(t)
        \/ Fetch(t)

SpecConc == InitConc /\ [][NextConc]_vars

\* every module the scan imports can be imported
ImportsSucceed(pkg) ==
    \A i \in 1..Len(pkg) : pkg[i].name \notin ExcludedModules => pkg[i].importable

\* C10: two threads concurrently calling get_op_builder(name) on an
\* Uninitialized instance, every import succeeding and name a builder a
\* complete scan registers: both calls return the class registered for name
\* and afterwards the registry equals the one a sequential discovery produces.
C10_RaceReturnsClass ==
    (/\ \A t \in Threads : pc[t] = "done"
     /\ ImportsSucceed(package)
     /\ last.arg \in AcceptedNames(package)) =>
        /\ \A t \in Threads : tret[t] = ClassRef(ExpectedRegistry(package)[last.arg])
        /\ class_dict = Dict(ExpectedRegistry(package))
====
